---- MODULE Spec2Model ----
(***************************************************************************)
(* Advertisement campaigns of Polester_backend: the request handlers of    *)
(* router/advertisements.py over AdvertisementService                      *)
(* (functions/advertisements.py), with the row store (table                *)
(* "advertisements") and the blob store (bucket "advertisements") as the   *)
(* shared state.  Every handler is cut at its store calls: the store is a  *)
(* networked service shared by every server instance, so the calls of two  *)
(* requests interleave between, never inside, a store call.                *)
(***************************************************************************)
EXTENDS Integers, Sequences, FiniteSets, Bags, TLC

VARIABLES
    rows,       \* table "advertisements": id -> row, for the ids stored
    blobs,      \* bucket "advertisements": the storage keys that hold an image
    nextId,     \* the id the row store assigns to the next inserted row
    nextKey,    \* the next uuid4 drawn for a storage key
    now,        \* datetime.now()
    inflight,   \* bag of requests that are between two store calls
    resp,       \* the response most recently sent by a handler
    incrOk      \* per id, how many increment_impression requests got a success response

vars == <<rows, blobs, nextId, nextKey, now, inflight, resp, incrOk>>

\* ---------------------------------------------------------------- bounds
MaxAds      == 2    \* campaigns created in a run
MaxQuota    == 2    \* largest impression_count a request supplies
MaxIncr     == 3    \* increment_impression requests accepted per campaign
MaxInflight == 2    \* requests that are between two store calls at once
MaxTime     == 2    \* wall-clock values a timestamp input takes
MaxClock    == 1    \* ticks of datetime.now()

\* ------------------------------------------------------------- constants
MaxImageBytes == 10485760       \* 10 * 1024 * 1024

\* Optional[T]: None is <<>>, a value v is <<v>>
None == <<>>
Some(v) == <<v>>

AdIds == 1..MaxAds
Statuses == {"active", "paused", "completed"}

\* ------------------------------------------------------------ timestamps
\* An ISO 8601 form field: unparsable text, a local time without offset, or
\* a time with the suffix Z.
IsoStrings ==
    [kind : {"bad"}, local : {0}, off : {0}]
    \cup [kind : {"naive", "zulu"}, local : 1..MaxTime, off : {0}]

\* start_time.replace('Z', '+00:00')
ReplaceZ(s) == IF s.kind = "zulu" THEN [kind |-> "aware", local |-> s.local, off |-> 0] ELSE s

\* datetime.fromisoformat: None stands for ValueError
FromIsoFormat(s) == IF s.kind = "bad" THEN None ELSE Some(s)

\* the instant an aware datetime denotes; a naive one denotes its local time
Instant(d) == d.local - d.off

\* end_datetime <= start_datetime: Python refuses to order a naive and an
\* aware datetime (TypeError)
Comparable(a, b) == a.kind = b.kind
EndNotAfterStart(s, e) == Instant(e) <= Instant(s)

\* the datetimes pydantic hands to update_advertisement
DateTimes ==
    [kind : {"naive"}, local : 1..MaxTime, off : {0}]
    \cup [kind : {"aware"}, local : 1..MaxTime, off : {0}]

\* ------------------------------------------------------------------ rows
NewRow(path, desc, st, et, quota, t) ==
    [ image_path          |-> Some(path),
      description         |-> desc,
      start_time          |-> st,
      end_time            |-> et,
      impression_count    |-> quota,
      current_impressions |-> 0,
      status              |-> "active",
      created_at          |-> t,
      updated_at          |-> None ]

\* table.update(update_data): the fields of a partial row that are present
\* replace the row's
Merge(row, upd) ==
    [ image_path          |-> row.image_path,
      description         |-> IF upd.description = None THEN row.description ELSE upd.description[1],
      start_time          |-> IF upd.start_time = None THEN row.start_time ELSE upd.start_time[1],
      end_time            |-> IF upd.end_time = None THEN row.end_time ELSE upd.end_time[1],
      impression_count    |-> IF upd.impression_count = None THEN row.impression_count
                              ELSE upd.impression_count[1],
      current_impressions |-> IF upd.current_impressions = None THEN row.current_impressions
                              ELSE upd.current_impressions[1],
      status              |-> IF upd.status = None THEN row.status ELSE upd.status[1],
      created_at          |-> row.created_at,
      updated_at          |-> IF upd.updated_at = None THEN row.updated_at ELSE upd.updated_at ]

NoFields ==
    [ description |-> None, start_time |-> None, end_time |-> None,
      impression_count |-> None, current_impressions |-> None,
      status |-> None, updated_at |-> None ]

\* ------------------------------------------------------------- responses
\* what the caller receives: the HTTP status the router answers with, the
\* service's success flag and message, and the record in "data"
Response(op, id, code, msg, data) ==
    [op |-> op, id |-> id, code |-> code, success |-> code \in {200, 201},
     msg |-> msg, data |-> data]

NoResponse == Response("none", 0, 0, "none", None)

\* a request between two store calls, with the locals it still reads: for
\* create the advertisement_data to insert, for increment_impression the
\* current_impressions and impression_count it read, for delete the image_path
Call(op, stage, id, ad, cur, quota, path) ==
    [op |-> op, stage |-> stage, id |-> id, advertisement_data |-> ad,
     current_impressions |-> cur, impression_count |-> quota, image_path |-> path]

Calls == BagToSet(inflight)
Start(c) == inflight' = inflight (+) SetToBag({c})
Finish(c) == inflight' = inflight (-) SetToBag({c})
Advance(c, d) == inflight' = (inflight (-) SetToBag({c})) (+) SetToBag({d})
CanStart == BagCardinality(inflight) < MaxInflight

Init ==
    /\ rows = <<>>
    /\ blobs = {}
    /\ nextId = 1
    /\ nextKey = 1
    /\ now = 0
    /\ inflight = EmptyBag
    /\ resp = NoResponse
    /\ incrOk = [i \in AdIds |-> 0]

\* ---------------------------------------------------------------- create
CreateChecksNoWindow(req) ==
    IF req.content_type = None THEN 500
    ELSE IF req.content_type[1][1] # "image" THEN 400
    ELSE IF req.size > MaxImageBytes THEN 400
    ELSE IF FromIsoFormat(ReplaceZ(req.start_time)) = None
            \/ FromIsoFormat(ReplaceZ(req.end_time)) = None THEN 400
    ELSE 0

\* router create_advertisement, lines 125-147: the status the checks end
\* with, 0 when they all pass
CreateChecks(req) ==
    IF req.content_type = None THEN 500
    ELSE IF req.content_type[1][1] # "image" THEN 400
    ELSE IF req.size > MaxImageBytes THEN 400
    ELSE IF FromIsoFormat(ReplaceZ(req.start_time)) = None
            \/ FromIsoFormat(ReplaceZ(req.end_time)) = None THEN 400
    ELSE IF ~Comparable(ReplaceZ(req.start_time), ReplaceZ(req.end_time)) THEN 500
    ELSE IF EndNotAfterStart(ReplaceZ(req.start_time), ReplaceZ(req.end_time)) THEN 400
    ELSE 0

\* advertisement_data, lines 91-101
AdvertisementData(path, req, t) ==
    NewRow(path, req.description, ReplaceZ(req.start_time), ReplaceZ(req.end_time),
           req.impression_count, t)

\* The request up to and including the upload (router 125-157, service 69-85).
\* ok is whether the upload succeeds.  The handler's own suspension at
\* image.read() comes before it touches either store, so the step starts
\* there.  ensure_bucket_exists swallows its errors and the bucket is not part
\* of the state; the storage key is a fresh uuid4, whatever the file name.
CreateStart(req, ok) ==
    /\ CanStart
    /\ nextKey <= MaxAds
    /\ IF CreateChecks(req) # 0
       THEN /\ resp' = Response("create", 0, CreateChecks(req),
                                 IF CreateChecks(req) = 400 THEN "invalid" ELSE "error", None)
            /\ UNCHANGED <<rows, blobs, nextId, nextKey, now, inflight, incrOk>>
       ELSE IF ~ok
       THEN /\ resp' = Response("create", 0, 500, "error", None)
            /\ nextKey' = nextKey + 1
            /\ UNCHANGED <<rows, blobs, nextId, now, inflight, incrOk>>
       ELSE /\ blobs' = blobs \cup {nextKey}
            /\ nextKey' = nextKey + 1
            /\ Start(Call("create", "insert", 0, Some(AdvertisementData(nextKey, req, 0)),
                       0, 0, None))
            /\ UNCHANGED <<rows, nextId, now, resp, incrOk>>

CreateInsertCleaning(c, ok) ==
    /\ c \in Calls /\ c.op = "create"
    /\ Finish(c)
    /\ IF ok
       THEN /\ rows' = rows @@ (nextId :> [c.advertisement_data[1] EXCEPT !.created_at = now])
            /\ nextId' = nextId + 1
            /\ resp' = Response("create", nextId, 201, "ok", Some([c.advertisement_data[1] EXCEPT !.created_at = now]))
            /\ UNCHANGED blobs
       ELSE /\ resp' = Response("create", 0, 500, "error", None)
            /\ blobs' = blobs \ {c.advertisement_data[1].image_path[1]}
            /\ UNCHANGED <<rows, nextId>>
    /\ UNCHANGED <<nextKey, now, incrOk>>

\* The insert and the response (service 87-116, router 159-169).
CreateInsert(c, ok) ==
    /\ c \in Calls /\ c.op = "create"
    /\ Finish(c)
    /\ IF ok
       THEN /\ rows' = rows @@ (nextId :> [c.advertisement_data[1] EXCEPT !.created_at = now])
            /\ nextId' = nextId + 1
            /\ resp' = Response("create", nextId, 201, "ok", Some([c.advertisement_data[1] EXCEPT !.created_at = now]))
       ELSE /\ resp' = Response("create", 0, 500, "error", None)
            /\ UNCHANGED <<rows, nextId>>
    /\ UNCHANGED <<blobs, nextKey, now, incrOk>>

\* ---------------------------------------------------------------- update
UpdateDataAlwaysStamped(req, t) ==
    Some([NoFields EXCEPT !.description = req.description,
                          !.start_time = req.start_time,
                          !.end_time = req.end_time,
                          !.impression_count = req.impression_count,
                          !.status = req.status,
                          !.updated_at = Some(t)])

UpdateDataReactivating(req, t) ==
    LET fields == [NoFields EXCEPT !.description = req.description,
                                   !.start_time = req.start_time,
                                   !.end_time = req.end_time,
                                   !.impression_count = req.impression_count,
                                   !.status = IF req.status = None /\ req.impression_count # None
                                              THEN Some("active") ELSE req.status]
    IN IF fields = NoFields THEN None
       ELSE Some([fields EXCEPT !.updated_at = Some(t)])

\* update_data, service lines 249-269: None when no field was supplied
UpdateData(req, t) ==
    LET fields == [NoFields EXCEPT !.description = req.description,
                                   !.start_time = req.start_time,
                                   !.end_time = req.end_time,
                                   !.impression_count = req.impression_count,
                                   !.status = req.status]
    IN IF fields = NoFields THEN None
       ELSE Some([fields EXCEPT !.updated_at = Some(t)])

\* PATCH /{ad_id}: one store call (service 248-297, router 274-291).
\* ok is whether the store call succeeds.
Update(id, req, ok) ==
    /\ IF UpdateData(req, now) = None
       THEN /\ resp' = Response("update", id, 404, "no_data", None)
            /\ UNCHANGED rows
       ELSE IF ~ok
       THEN /\ resp' = Response("update", id, 404, "error", None)
            /\ UNCHANGED rows
       ELSE IF id \notin DOMAIN rows
       THEN /\ resp' = Response("update", id, 404, "not_found", None)
            /\ UNCHANGED rows
       ELSE /\ rows' = [rows EXCEPT ![id] = Merge(@, UpdateData(req, now)[1])]
            /\ resp' = Response("update", id, 200, "ok",
                                Some(Merge(rows[id], UpdateData(req, now)[1])))
    /\ UNCHANGED <<blobs, nextId, nextKey, now, inflight, incrOk>>

\* ------------------------------------------------------------- increment
IncrementDataOffByOne(current_impressions, impression_count) ==
    [NoFields EXCEPT
        !.current_impressions = Some(current_impressions + 1),
        !.status = IF current_impressions + 1 > impression_count
                   THEN Some("completed") ELSE None]

IncrementDataReactivating(current_impressions, impression_count) ==
    [NoFields EXCEPT
        !.current_impressions = Some(current_impressions + 1),
        !.status = IF current_impressions + 1 >= impression_count
                   THEN Some("completed") ELSE Some("active")]

\* update_data of increment_impression, service lines 317-327
IncrementData(current_impressions, impression_count) ==
    [NoFields EXCEPT
        !.current_impressions = Some(current_impressions + 1),
        !.status = IF current_impressions + 1 >= impression_count
                   THEN Some("completed") ELSE None]

\* increment_impression requests on id that have read and not yet written
PendingIncr(id) ==
    BagCardinality([c \in {d \in Calls : d.op = "incr" /\ d.id = id} |-> inflight[c]])

\* The read (service 310-319): get_advertisement reports its own failures.
IncrRead(id, ok) ==
    /\ CanStart
    /\ incrOk[id] + PendingIncr(id) < MaxIncr
    /\ IF ~ok
       THEN /\ resp' = Response("incr", id, 404, "error", None)
            /\ UNCHANGED inflight
       ELSE IF id \notin DOMAIN rows
       THEN /\ resp' = Response("incr", id, 404, "not_found", None)
            /\ UNCHANGED inflight
       ELSE /\ Start(Call("incr", "write", id, None, rows[id].current_impressions,
                       rows[id].impression_count, None))
            /\ UNCHANGED resp
    /\ UNCHANGED <<rows, blobs, nextId, nextKey, now, incrOk>>

IncrWriteAtomic(c, ok) ==
    /\ c \in Calls /\ c.op = "incr"
    /\ Finish(c)
    /\ IF ~ok
       THEN /\ resp' = Response("incr", c.id, 404, "error", None)
            /\ UNCHANGED <<rows, incrOk>>
       ELSE /\ incrOk' = [incrOk EXCEPT ![c.id] = @ + 1]
            /\ IF c.id \in DOMAIN rows
               THEN /\ rows' = [rows EXCEPT ![c.id] =
                                   Merge(@, IncrementData(@.current_impressions, @.impression_count))]
                    /\ resp' = Response("incr", c.id, 200, "ok",
                                        Some(Merge(rows[c.id],
                                                   IncrementData(rows[c.id].current_impressions,
                                                                 rows[c.id].impression_count))))
               ELSE /\ resp' = Response("incr", c.id, 200, "ok", None)
                    /\ UNCHANGED rows
    /\ UNCHANGED <<blobs, nextId, nextKey, now>>

IncrWriteUpserting(c, ok) ==
    /\ c \in Calls /\ c.op = "incr"
    /\ Finish(c)
    /\ IF ~ok
       THEN /\ resp' = Response("incr", c.id, 404, "error", None)
            /\ UNCHANGED <<rows, incrOk>>
       ELSE /\ incrOk' = [incrOk EXCEPT ![c.id] = @ + 1]
            /\ rows' = IF c.id \in DOMAIN rows
                       THEN [rows EXCEPT ![c.id] = Merge(@, IncrementData(c.current_impressions, c.impression_count))]
                       ELSE [i \in DOMAIN rows \cup {c.id} |->
                                IF i = c.id
                                THEN Merge(NewRow(0, "", [kind |-> "naive", local |-> 0, off |-> 0],
                                                  [kind |-> "naive", local |-> 0, off |-> 0],
                                                  c.impression_count, now),
                                           IncrementData(c.current_impressions, c.impression_count))
                                ELSE rows[i]]
            /\ resp' = Response("incr", c.id, 200, "ok", Some(rows'[c.id]))
    /\ UNCHANGED <<blobs, nextId, nextKey, now>>

IncrWriteActiveOnly(c, ok) ==
    /\ c \in Calls /\ c.op = "incr"
    /\ Finish(c)
    /\ IF ~ok
       THEN /\ resp' = Response("incr", c.id, 404, "error", None)
            /\ UNCHANGED <<rows, incrOk>>
       ELSE IF c.id \in DOMAIN rows /\ rows[c.id].status # "active"
       THEN /\ resp' = Response("incr", c.id, 404, "inactive", None)
            /\ UNCHANGED <<rows, incrOk>>
       ELSE /\ incrOk' = [incrOk EXCEPT ![c.id] = @ + 1]
            /\ IF c.id \in DOMAIN rows
               THEN /\ rows' = [rows EXCEPT ![c.id] = Merge(@, IncrementData(c.current_impressions, c.impression_count))]
                    /\ resp' = Response("incr", c.id, 200, "ok",
                                        Some(Merge(rows[c.id], IncrementData(c.current_impressions, c.impression_count))))
               ELSE /\ resp' = Response("incr", c.id, 200, "ok", None)
                    /\ UNCHANGED rows
    /\ UNCHANGED <<blobs, nextId, nextKey, now>>

\* The write and the response (service 321-348, router 311-318).
IncrWrite(c, ok) ==
    /\ c \in Calls /\ c.op = "incr"
    /\ Finish(c)
    /\ IF ~ok
       THEN /\ resp' = Response("incr", c.id, 404, "error", None)
            /\ UNCHANGED <<rows, incrOk>>
       ELSE /\ incrOk' = [incrOk EXCEPT ![c.id] = @ + 1]
            /\ IF c.id \in DOMAIN rows
               THEN /\ rows' = [rows EXCEPT ![c.id] = Merge(@, IncrementData(c.current_impressions, c.impression_count))]
                    /\ resp' = Response("incr", c.id, 200, "ok",
                                        Some(Merge(rows[c.id], IncrementData(c.current_impressions, c.impression_count))))
               ELSE /\ resp' = Response("incr", c.id, 200, "ok", None)
                    /\ UNCHANGED rows
    /\ UNCHANGED <<blobs, nextId, nextKey, now>>

\* ---------------------------------------------------------------- delete
DeleteReadUnchecked(id, ok) ==
    /\ CanStart
    /\ IF ~ok
       THEN /\ resp' = Response("delete", id, 404, "error", None)
            /\ UNCHANGED inflight
       ELSE /\ Start(Call("delete",
                          IF id \in DOMAIN rows /\ rows[id].image_path # None
                          THEN "blob" ELSE "row",
                          id, None, 0, 0,
                          IF id \in DOMAIN rows THEN rows[id].image_path ELSE None))
            /\ UNCHANGED resp
    /\ UNCHANGED <<rows, blobs, nextId, nextKey, now, incrOk>>

\* The read (service 361-369).
DeleteRead(id, ok) ==
    /\ CanStart
    /\ IF ~ok
       THEN /\ resp' = Response("delete", id, 404, "error", None)
            /\ UNCHANGED inflight
       ELSE IF id \notin DOMAIN rows
       THEN /\ resp' = Response("delete", id, 404, "not_found", None)
            /\ UNCHANGED inflight
       ELSE /\ Start(Call("delete", IF rows[id].image_path # None THEN "blob" ELSE "row",
                          id, None, 0, 0, rows[id].image_path))
            /\ UNCHANGED resp
    /\ UNCHANGED <<rows, blobs, nextId, nextKey, now, incrOk>>

DeleteBlobAborting(c, ok) ==
    /\ c \in Calls /\ c.op = "delete" /\ c.stage = "blob"
    /\ IF ok
       THEN /\ blobs' = blobs \ {c.image_path[1]}
            /\ Advance(c, [c EXCEPT !.stage = "row"])
            /\ UNCHANGED resp
       ELSE /\ Finish(c)
            /\ resp' = Response("delete", c.id, 404, "error", None)
            /\ UNCHANGED blobs
    /\ UNCHANGED <<rows, nextId, nextKey, now, incrOk>>

\* storage remove([image_path]) (service 373-378): a failure is printed and
\* the request goes on.
DeleteBlob(c, ok) ==
    /\ c \in Calls /\ c.op = "delete" /\ c.stage = "blob"
    /\ blobs' = IF ok THEN blobs \ {c.image_path[1]} ELSE blobs
    /\ Advance(c, [c EXCEPT !.stage = "row"])
    /\ UNCHANGED <<rows, nextId, nextKey, now, resp, incrOk>>

\* The row delete and the response (service 380-394, router 338-344).
DeleteRow(c, ok) ==
    /\ c \in Calls /\ c.op = "delete" /\ c.stage = "row"
    /\ Finish(c)
    /\ IF ok
       THEN /\ rows' = [i \in DOMAIN rows \ {c.id} |-> rows[i]]
            /\ resp' = Response("delete", c.id, 200, "ok", None)
       ELSE /\ resp' = Response("delete", c.id, 404, "error", None)
            /\ UNCHANGED rows
    /\ UNCHANGED <<blobs, nextId, nextKey, now, incrOk>>

\* ------------------------------------------------------------------- get
\* GET /{ad_id} (service 129-151, router 248-258): one store call; every
\* failure of the service is answered 404.
GetAdvertisement(id, ok) ==
    /\ IF ~ok
       THEN resp' = Response("get", id, 404, "error", None)
       ELSE IF id \notin DOMAIN rows
       THEN resp' = Response("get", id, 404, "not_found", None)
       ELSE resp' = Response("get", id, 200, "ok", Some(rows[id]))
    /\ UNCHANGED <<rows, blobs, nextId, nextKey, now, inflight, incrOk>>

\* ----------------------------------------------------------------- lists
DefaultLimit == 100             \* limit: int = 100

\* if status: query = query.eq("status", status) -- no status and the empty
\* string select every row
Matching(status) ==
    {id \in DOMAIN rows : status = None \/ status[1] = "" \/ rows[id].status = status[1]}

RECURSIVE Perms(_)
Perms(S) ==
    IF S = {} THEN {<<>>}
    ELSE UNION {{<<x>> \o p : p \in Perms(S \ {x})} : x \in S}

\* order("created_at", desc=True) over the ids in S created at t or before:
\* the store fixes no order among rows of equal created_at
RECURSIVE OrderByCreatedAtDesc(_, _)
OrderByCreatedAtDesc(S, t) ==
    IF t < 0 THEN {<<>>}
    ELSE {p \o q : p \in Perms({id \in S : rows[id].created_at = t}),
                   q \in OrderByCreatedAtDesc(S, t - 1)}

\* the record of a row as a list returns it
Record(id) == [id |-> id, row |-> rows[id]]
Records(ids) == [k \in 1..Len(ids) |-> Record(ids[k])]

RangeInclusive(seq, offset, limit) ==
    SubSeq(seq, offset + 1, IF offset + limit + 1 < Len(seq) THEN offset + limit + 1 ELSE Len(seq))

\* range(offset, offset + limit - 1): positions counted from 0, both ends
\* included, cut at the end of the result
Range(seq, offset, limit) ==
    SubSeq(seq, offset + 1, IF offset + limit < Len(seq) THEN offset + limit ELSE Len(seq))

\* response.data of get_all_advertisements (service 172-177)
GetAllData(status, limit, offset) ==
    {Range(Records(ids), offset, limit) : ids \in OrderByCreatedAtDesc(Matching(status), now)}

GetActiveDataUnexhausted ==
    {Records(ids) :
        ids \in OrderByCreatedAtDesc(
            {id \in Matching(Some("active")) :
                rows[id].current_impressions < rows[id].impression_count}, now)}

\* response.data of get_active_advertisements (service 203-209)
GetActiveData ==
    {Records(ids) : ids \in OrderByCreatedAtDesc(Matching(Some("active")), now)}

\* GET /: one store call (service 170-191, router 190-207)
GetAllAdvertisements(status, limit, offset, ok) ==
    /\ IF ok
       THEN \E data \in GetAllData(status, limit, offset) :
                resp' = Response("list", 0, 200, "ok", data)
       ELSE resp' = Response("list", 0, 500, "error", <<>>)
    /\ UNCHANGED <<rows, blobs, nextId, nextKey, now, inflight, incrOk>>

\* GET /active: one store call (service 201-223, router 222-233)
GetActiveAdvertisements(ok) ==
    /\ IF ok
       THEN \E data \in GetActiveData :
                resp' = Response("list_active", 0, 200, "ok", data)
       ELSE resp' = Response("list_active", 0, 500, "error", <<>>)
    /\ UNCHANGED <<rows, blobs, nextId, nextKey, now, inflight, incrOk>>

\* ------------------------------------------------------ image generation
\* the attributes of class Env (util/config.py 9-16); reading any other
\* attribute of env raises AttributeError
EnvAttributes ==
    {"GOOGLE_API_KEY", "GOOGLE_SEARCH_ENGINE_ID", "DOCS_PASSWORD", "DOCS_USERNAME",
     "SUPABASE_KEY", "SUPABASE_URL", "RELOAD", "PORT"}

MODELS ==
    ("flux-schnell" :> "black-forest-labs/FLUX.1-schnell")
    @@ ("sdxl" :> "stabilityai/stable-diffusion-xl-base-1.0")
    @@ ("sd-1.5" :> "runwayml/stable-diffusion-v1-5")

DEFAULT_MODEL == "flux-schnell"

\* a text: what it says and whether it holds a character of U+4E00..U+9FFF
Text(words, chinese) == [words |-> words, chinese |-> chinese]
ContainsChinese(text) == text.chinese

\* what the translation capability answers
English(text) == [text EXCEPT !.chinese = FALSE]

\* _translate_to_english: the text to use and the calls made to the
\* translation capability.  environ is the set of environment variables
\* that are set; translate is whether the capability answers ("ok") or raises.
TranslateToEnglish(text, environ, gemini_available, translate) ==
    IF ~gemini_available THEN [text |-> text, calls |-> <<>>]
    ELSE IF "GEMINI_API_KEY" \notin EnvAttributes THEN [text |-> text, calls |-> <<>>]
    ELSE IF "GEMINI_API_KEY" \notin environ THEN [text |-> text, calls |-> <<>>]
    ELSE IF translate = "ok"
    THEN [text |-> English(text), calls |-> <<[to |-> "translate", text |-> text]>>]
    ELSE [text |-> text, calls |-> <<[to |-> "translate", text |-> text]>>]

\* the dict generate_image returns, with the status and text of a backend
\* error that its message quotes, the calls the request made, and the request
Result(success, msg, data, detail, calls, given) ==
    [op |-> "generate", id |-> 0, code |-> 0, success |-> success, msg |-> msg,
     data |-> data, detail |-> detail, calls |-> calls, given |-> given]

GenerateImageResultWithToken(given) ==
    LET prompt == IF ContainsChinese(given.prompt)
                  THEN TranslateToEnglish(given.prompt, given.environ,
                                          given.gemini_available, given.translate)
                  ELSE [text |-> given.prompt, calls |-> <<>>]
        negative == IF given.negative_prompt # None /\ ContainsChinese(given.negative_prompt[1])
                    THEN TranslateToEnglish(given.negative_prompt[1], given.environ,
                                            given.gemini_available, given.translate)
                    ELSE [text |-> IF given.negative_prompt = None THEN None
                                   ELSE given.negative_prompt[1],
                          calls |-> <<>>]
        calls == prompt.calls \o negative.calls
    IN IF given.model \notin DOMAIN MODELS
       THEN Result(FALSE, "unsupported_model", None, <<>>, calls, given)
       ELSE LET post == [to |-> "generate", model_id |-> MODELS[given.model],
                         inputs |-> prompt.text, negative_prompt |-> negative.text]
                posted == calls \o <<post>>
            IN IF given.backend.kind = "timeout"
               THEN Result(FALSE, "timeout", None, <<>>, posted, given)
               ELSE IF given.backend.kind # "response"
               THEN Result(FALSE, "error", None, <<>>, posted, given)
               ELSE IF given.backend.status_code = 200
               THEN Result(TRUE, "ok",
                           Some([image_bytes |-> given.backend.body,
                                 model |-> given.model,
                                 prompt |-> prompt.text,
                                 original_prompt |-> given.prompt]),
                           <<>>, posted, given)
               ELSE IF given.backend.status_code = 503
               THEN Result(FALSE, "loading", None, <<>>, posted, given)
               ELSE Result(FALSE, "failed", None,
                           <<given.backend.status_code, given.backend.body>>, posted, given)

GenerateImageResultTranslatingFirst(given) ==
    LET calls == IF ContainsChinese(given.prompt)
                 THEN <<[to |-> "translate", text |-> given.prompt]>> ELSE <<>>
    IN IF "HUGGINGFACE_TOKEN" \notin EnvAttributes
       THEN Result(FALSE, "error", None, <<>>, calls, given)
       ELSE IF "HUGGINGFACE_TOKEN" \notin given.environ
       THEN Result(FALSE, "no_token", None, <<>>, calls, given)
       ELSE GenerateImageResultWithToken(given)

\* generate_image (image_generation.py 80-170): the token is read first, and
\* an exception anywhere is answered as a failure
GenerateImageResult(given) ==
    IF "HUGGINGFACE_TOKEN" \notin EnvAttributes
    THEN Result(FALSE, "error", None, <<>>, <<>>, given)
    ELSE IF "HUGGINGFACE_TOKEN" \notin given.environ
    THEN Result(FALSE, "no_token", None, <<>>, <<>>, given)
    ELSE GenerateImageResultWithToken(given)

GenerateImage(given) ==
    /\ resp' = GenerateImageResult(given)
    /\ UNCHANGED <<rows, blobs, nextId, nextKey, now, inflight, incrOk>>

\* ----------------------------------------------------------------- clock
Tick ==
    /\ now < MaxClock
    /\ now' = now + 1
    /\ UNCHANGED <<rows, blobs, nextId, nextKey, inflight, resp, incrOk>>

\* -------------------------------------------------------------- requests
UpdateRequest(d, s, e, q, st) ==
    [description |-> d, start_time |-> s, end_time |-> e, impression_count |-> q, status |-> st]

CreateRequest(ct, size, d, s, e, q) ==
    [content_type |-> ct, size |-> size, description |-> d, start_time |-> s,
     end_time |-> e, impression_count |-> q]

Naive(t) == [kind |-> "naive", local |-> t, off |-> 0]

\* the requests of the concurrent lifecycle: one valid window, every quota
CoreCreates ==
    {CreateRequest(Some(<<"image", "png">>), 1, "d1", Naive(1), Naive(2), q) : q \in 1..MaxQuota}

CoreUpdates ==
    {UpdateRequest(None, None, None, Some(q), None) : q \in 1..(MaxQuota + 1)}
    \cup {UpdateRequest(None, None, None, None, Some(s)) : s \in Statuses}

\* ------------------------------------------------- the concurrent lifecycle
\* One campaign and the requests on it, interleaved at their store calls;
\* no store call fails.
Next ==
    \/ \E req \in CoreCreates : nextKey = 1 /\ CreateStart(req, TRUE)
    \/ \E c \in Calls : CreateInsert(c, TRUE)
    \/ \E id \in AdIds, req \in CoreUpdates : Update(id, req, TRUE)
    \/ \E id \in AdIds : IncrRead(id, TRUE)
    \/ \E c \in Calls : IncrWrite(c, TRUE)
    \/ \E id \in AdIds : DeleteRead(id, TRUE)
    \/ \E c \in Calls : DeleteBlob(c, TRUE)
    \/ \E c \in Calls : DeleteRow(c, TRUE)

Spec == Init /\ [][Next]_vars

\* ------------------------------------------- one request at a time, no update
Idle == inflight = EmptyBag

NextSeq ==
    \/ \E req \in CoreCreates : Idle /\ CreateStart(req, TRUE)
    \/ \E c \in Calls : CreateInsert(c, TRUE)
    \/ \E id \in AdIds : Idle /\ IncrRead(id, TRUE)
    \/ \E c \in Calls : IncrWrite(c, TRUE)

SpecSeq == Init /\ [][NextSeq]_vars

\* ------------------------------------- the whole interface, one request at a time
\* Every input of the create form and of the update body, the clock, and
\* store calls that fail.
ContentTypes == {None, Some(<<"image", "png">>), Some(<<"text", "plain">>)}
ImageSizes == {MaxImageBytes, MaxImageBytes + 1}

ApiCreates ==
    {CreateRequest(ct, size, "d1", s, e, 1) :
        ct \in ContentTypes, size \in ImageSizes, s \in IsoStrings, e \in IsoStrings}

Opt(S) == {None} \cup {Some(x) : x \in S}

\* update bodies: every choice of the two window bounds, the empty body among them
ApiUpdates ==
    {UpdateRequest(None, s, e, None, None) : s \in Opt(DateTimes), e \in Opt(DateTimes)}

\* the ids a request names: the stored ones and the next, unassigned one
KnownIds == 1..nextId

NextApi ==
    \/ \E req \in ApiCreates, ok \in BOOLEAN : Idle /\ nextId = 1 /\ CreateStart(req, ok)
    \/ \E c \in Calls, ok \in BOOLEAN : CreateInsert(c, ok)
    \/ \E id \in KnownIds, req \in ApiUpdates, ok \in BOOLEAN : Idle /\ Update(id, req, ok)
    \/ Tick

SpecApi == Init /\ [][NextApi]_vars

\* ------------------------------------------ two campaigns and their updates
\* One request at a time on two campaigns: the updates name the first
\* campaign or an id that is not stored, the second campaign stands by.  An
\* update body carries any subset of its five fields, each with a value the
\* campaign does not have.
FrameCreates ==
    {CreateRequest(Some(<<"image", "png">>), 1, "d1", Naive(1), Naive(2), 1)}

FrameUpdates ==
    {UpdateRequest(d, s, e, q, st) :
        d \in Opt({"d2"}), s \in Opt({Naive(2)}), e \in Opt({Naive(1)}),
        q \in Opt({2}), st \in Opt({"paused"})}

FrameIds == {1, nextId}

NextFrame ==
    \/ \E req \in FrameCreates : Idle /\ nextId <= 2 /\ CreateStart(req, TRUE)
    \/ \E c \in Calls : CreateInsert(c, TRUE)
    \/ \E id \in FrameIds, req \in FrameUpdates, ok \in BOOLEAN : Idle /\ Update(id, req, ok)
    \/ Tick

SpecFrame == Init /\ [][NextFrame]_vars

\* --------------------------------- one campaign, store calls that may fail
\* One request at a time on one campaign; every store call of update,
\* increment_impression and delete either succeeds or raises.
FaultUpdates ==
    {UpdateRequest(None, None, None, None, Some(s)) : s \in Statuses}

NextFault ==
    \/ \E req \in CoreCreates : Idle /\ nextKey = 1 /\ CreateStart(req, TRUE)
    \/ \E c \in Calls : CreateInsert(c, TRUE)
    \/ \E id \in KnownIds, req \in FaultUpdates, ok \in BOOLEAN : Idle /\ Update(id, req, ok)
    \/ \E id \in KnownIds \cap AdIds, ok \in BOOLEAN : Idle /\ IncrRead(id, ok)
    \/ \E c \in Calls, ok \in BOOLEAN : IncrWrite(c, ok)
    \/ \E id \in KnownIds, ok \in BOOLEAN : Idle /\ DeleteRead(id, ok)
    \/ \E c \in Calls, ok \in BOOLEAN : DeleteBlob(c, ok)
    \/ \E c \in Calls, ok \in BOOLEAN : DeleteRow(c, ok)
    \/ Tick

SpecFault == Init /\ [][NextFault]_vars

\* ------------------------------------------------------ concurrent deletes
\* One create and the deletes, interleaved at their store calls, every store
\* call of a delete succeeding or raising.  The table may hold a row that
\* another client of the store wrote without an image_path.
LegacyRow == [NewRow(0, "d0", Naive(1), Naive(2), 1, 0) EXCEPT !.image_path = None]

InitDel ==
    /\ rows \in {<<>>, <<LegacyRow>>}
    /\ nextId = Len(rows) + 1
    /\ blobs = {}
    /\ nextKey = 1
    /\ now = 0
    /\ inflight = EmptyBag
    /\ resp = NoResponse
    /\ incrOk = [i \in AdIds |-> 0]

NextDel ==
    \/ \E req \in FrameCreates : nextKey = 1 /\ CreateStart(req, TRUE)
    \/ \E c \in Calls : CreateInsert(c, TRUE)
    \/ \E id \in KnownIds, ok \in BOOLEAN : DeleteRead(id, ok)
    \/ \E c \in Calls, ok \in BOOLEAN : DeleteBlob(c, ok)
    \/ \E c \in Calls, ok \in BOOLEAN : DeleteRow(c, ok)

SpecDel == InitDel /\ [][NextDel]_vars

\* ------------------------------------------------------------ the lists
\* The two list requests in every store of up to three campaigns, of any
\* status, exhausted or not, created at equal or different times, and in the
\* stores of DefaultLimit and DefaultLimit + 1 active campaigns.
RowKinds ==
    {[status |-> "active", current_impressions |-> 0],
     [status |-> "active", current_impressions |-> 1],
     [status |-> "paused", current_impressions |-> 0],
     [status |-> "completed", current_impressions |-> 1]}

\* a campaign as create, increment_impression and update leave it
StoredRow(key, kind, t) ==
    [NewRow(key, "d1", Naive(1), Naive(2), 1, t) EXCEPT
        !.status = kind.status,
        !.current_impressions = kind.current_impressions,
        !.updated_at = IF kind.status = "completed" THEN None ELSE
                       IF kind = [status |-> "active", current_impressions |-> 0]
                       THEN None ELSE Some(t)]

NonDecreasing(n) ==
    {c \in [1..n -> 0..MaxClock] : \A i \in 1..(n - 1) : c[i] <= c[i + 1]}

SmallStores ==
    UNION {{[i \in 1..n |-> StoredRow(i, kind[i], c[i])] :
                kind \in [1..n -> RowKinds], c \in NonDecreasing(n)} :
           n \in 0..3}

LargeStores ==
    {[i \in 1..n |-> StoredRow(i, [status |-> "active", current_impressions |-> 0], i)] :
        n \in {DefaultLimit, DefaultLimit + 1}}

InitList ==
    /\ rows \in SmallStores \cup LargeStores
    /\ nextId = Len(rows) + 1
    /\ blobs = 1..Len(rows)
    /\ nextKey = Len(rows) + 1
    /\ now = IF Len(rows) = 0 THEN 0 ELSE rows[Len(rows)].created_at
    /\ inflight = EmptyBag
    /\ resp = NoResponse
    /\ incrOk = [i \in AdIds |-> 0]

StatusFilters == Opt({"", "active", "paused", "expired"})
Limits == {1, 2, DefaultLimit}
Offsets == 0..2

NextList ==
    \/ \E status \in StatusFilters, limit \in Limits, offset \in Offsets, ok \in BOOLEAN :
            GetAllAdvertisements(status, limit, offset, ok)
    \/ \E ok \in BOOLEAN : GetActiveAdvertisements(ok)

SpecList == InitList /\ [][NextList]_vars

\* ------------------------------------------- a preview, then the campaign
\* Generation requests, and the create that submits the artwork; one request
\* at a time.
Prompts == {Text("p", FALSE), Text("p", TRUE)}
NegativePrompts == {None, Some(Text("n", TRUE))}
ModelNames == {DEFAULT_MODEL, "dall-e"}
Environs == {{}, {"HUGGINGFACE_TOKEN", "GEMINI_API_KEY"}}
Backends ==
    {[kind |-> "response", status_code |-> c, body |-> "b"] : c \in {200, 404, 503}}
    \cup {[kind |-> k, status_code |-> 0, body |-> ""] : k \in {"timeout", "refused"}}

GenerationRequests ==
    [prompt : Prompts, model : ModelNames, negative_prompt : NegativePrompts,
     environ : Environs, gemini_available : BOOLEAN, translate : {"ok", "raises"},
     backend : Backends]

NextGen ==
    \/ \E given \in GenerationRequests : Idle /\ GenerateImage(given)
    \/ \E req \in FrameCreates : Idle /\ nextKey = 1 /\ CreateStart(req, TRUE)
    \/ \E c \in Calls : CreateInsert(c, TRUE)

SpecGen == Init /\ [][NextGen]_vars

\* ------------------------------------------------ executions with no update
\* One campaign, its increment_impression requests and its deletes,
\* interleaved at their store calls; no update request is made and no store
\* call fails.
NextIncr ==
    \/ \E req \in CoreCreates : nextKey = 1 /\ CreateStart(req, TRUE)
    \/ \E c \in Calls : CreateInsert(c, TRUE)
    \/ \E id \in AdIds : IncrRead(id, TRUE)
    \/ \E c \in Calls : IncrWrite(c, TRUE)
    \/ \E id \in AdIds : DeleteRead(id, TRUE)
    \/ \E c \in Calls : DeleteBlob(c, TRUE)
    \/ \E c \in Calls : DeleteRow(c, TRUE)

SpecIncr == Init /\ [][NextIncr]_vars

\* --------------------------------------------- requests on a deleted campaign
\* One campaign and every request on its id, interleaved at their store
\* calls: the id is read, updated, incremented and deleted while and after
\* the campaign is deleted.  No store call fails.
GoneUpdates ==
    {UpdateRequest(None, None, None, None, Some("paused")),
     UpdateRequest(None, None, None, Some(MaxQuota), None)}

NextGone ==
    \/ \E req \in FrameCreates : nextKey = 1 /\ CreateStart(req, TRUE)
    \/ \E c \in Calls : CreateInsert(c, TRUE)
    \/ \E id \in AdIds, req \in GoneUpdates : Update(id, req, TRUE)
    \/ \E id \in AdIds : IncrRead(id, TRUE)
    \/ \E c \in Calls : IncrWrite(c, TRUE)
    \/ \E id \in AdIds : DeleteRead(id, TRUE)
    \/ \E c \in Calls : DeleteBlob(c, TRUE)
    \/ \E c \in Calls : DeleteRow(c, TRUE)
    \/ \E id \in AdIds : GetAdvertisement(id, TRUE)

SpecGone == Init /\ [][NextGone]_vars

\* ------------------------------------------------- a campaign that is paused
\* One request at a time on one campaign: increment_impression requests, and
\* updates that pause it.  No store call fails.
PausedUpdates ==
    {UpdateRequest(None, None, None, None, Some("paused"))}

NextPaused ==
    \/ \E req \in CoreCreates : Idle /\ nextKey = 1 /\ CreateStart(req, TRUE)
    \/ \E c \in Calls : CreateInsert(c, TRUE)
    \/ \E id \in KnownIds, req \in PausedUpdates : Idle /\ Update(id, req, TRUE)
    \/ \E id \in KnownIds \cap AdIds : Idle /\ IncrRead(id, TRUE)
    \/ \E c \in Calls : IncrWrite(c, TRUE)
    \/ Tick

SpecPaused == Init /\ [][NextPaused]_vars

\* ======================================================================
\* Properties
\* ======================================================================
Stored == DOMAIN rows

\* C1: with one request at a time and only create and increment_impression,
\* the k-th successful increment of a campaign answers current_impressions = k,
\* with status "active" while k < impression_count and "completed" from
\* k = impression_count on; the stored row agrees.
C1_SequentialIncrements ==
    /\ \A id \in Stored :
        /\ rows[id].current_impressions = incrOk[id]
        /\ rows[id].status = IF incrOk[id] >= rows[id].impression_count
                             THEN "completed" ELSE "active"
    /\ (resp.op = "incr" /\ resp.success) =>
        /\ resp.data # None
        /\ resp.data[1].current_impressions = incrOk[resp.id]
        /\ resp.data[1].status = IF incrOk[resp.id] >= resp.data[1].impression_count
                                 THEN "completed" ELSE "active"

\* an increment answered after the one that completed the campaign
C1_Witness ==
    /\ resp.op = "incr" /\ resp.success /\ resp.data # None
    /\ resp.data[1].status = "completed"
    /\ resp.data[1].current_impressions > resp.data[1].impression_count

\* C2: every stored campaign has current_impressions <= impression_count.
C2_CounterWithinQuota ==
    \A id \in Stored : rows[id].current_impressions <= rows[id].impression_count

\* C3: an increment_impression that wrote after another request had already
\* written the counter it read stores the same value again and still answers
\* success: the stored counter ends one above the value both read, and two
\* successes are counted for it.
C3_LostUpdate ==
    [][\A c \in Calls :
        (c.op = "incr" /\ c.id \in Stored /\ IncrWrite(c, TRUE)) =>
            /\ resp'.success
            /\ incrOk'[c.id] = incrOk[c.id] + 1
            /\ rows'[c.id].current_impressions = c.current_impressions + 1
            /\ (rows[c.id].current_impressions = c.current_impressions + 1
                    => rows'[c.id].current_impressions = rows[c.id].current_impressions)]_vars

\* impression_count increments succeeded on a campaign no update touched, and
\* it is still active, one impression short
C3_Witness ==
    \E id \in Stored :
        /\ rows[id].updated_at = None
        /\ inflight = EmptyBag
        /\ incrOk[id] = rows[id].impression_count
        /\ rows[id].current_impressions = incrOk[id] - 1
        /\ rows[id].status = "active"

\* C4: no step lowers the stored current_impressions of a campaign.
C4_CounterMonotone ==
    [][\A id \in Stored \cap DOMAIN rows' :
        rows'[id].current_impressions >= rows[id].current_impressions]_vars

\* C5: an increment_impression whose row is gone when it writes answers failure.
C5_VanishedIsFailure ==
    (resp.op = "incr" /\ resp.data = None) => ~resp.success

\* C6: a step that takes a stored campaign out of "completed" is an update
\* that supplies status; an increment_impression write leaves a completed
\* campaign completed.
C6_CompletedIsSticky ==
    [][\A id \in Stored \cap DOMAIN rows' :
        rows[id].status = "completed" =>
            /\ rows'[id].status # "completed" =>
                  \E req \in CoreUpdates : req.status # None /\ Update(id, req, TRUE)
            /\ (\E c \in Calls : c.id = id /\ IncrWrite(c, TRUE)) =>
                  rows'[id].status = "completed"]_vars

\* an increment answered on a completed campaign whose quota an update had
\* raised above the counter
C6_Witness ==
    /\ resp.op = "incr" /\ resp.success /\ resp.data # None
    /\ resp.data[1].status = "completed"
    /\ resp.data[1].updated_at # None
    /\ resp.data[1].current_impressions < resp.data[1].impression_count
    /\ resp.data[1].current_impressions >= 2

\* C7: the record a successful create answers with has current_impressions 0,
\* status "active" and end_time after start_time.
C7_CreatedRecord ==
    (resp.op = "create" /\ resp.success) =>
        /\ resp.data # None
        /\ resp.data[1].current_impressions = 0
        /\ resp.data[1].status = "active"
        /\ Comparable(resp.data[1].start_time, resp.data[1].end_time)
        /\ Instant(resp.data[1].end_time) > Instant(resp.data[1].start_time)
        /\ resp.id \in Stored => rows[resp.id] = resp.data[1]

C7_Witness ==
    /\ resp.op = "create" /\ resp.success /\ resp.data # None
    /\ resp.data[1].start_time.kind = "aware"
    /\ resp.id \in Stored

\* the create requests that fail a validation: the content type is not
\* image/* (a file part that carries none included), or the image is over
\* 10MB, or a timestamp does not parse, or end_time is not after start_time
C8_FailsValidation(req) ==
    \/ req.content_type = None
    \/ req.content_type # None /\ req.content_type[1][1] # "image"
    \/ req.size > MaxImageBytes
    \/ req.start_time.kind = "bad"
    \/ req.end_time.kind = "bad"
    \/ Instant(ReplaceZ(req.end_time)) <= Instant(ReplaceZ(req.start_time))

\* a step that answers 400 and changes neither store
C8_Rejected ==
    /\ resp'.code = 400 /\ ~resp'.success
    /\ rows' = rows /\ blobs' = blobs
    /\ inflight' = inflight /\ nextKey' = nextKey

\* C8: a create request that fails a validation is answered 400 and changes
\* neither store: no blob is uploaded, no row inserted, no storage key drawn.
\* That is, a step is such a rejection unless it is the first step of no
\* failing create request (the first step of a create request answers a
\* create or leaves a request in flight).
C8_RejectedBeforeSideEffects ==
    [][C8_Rejected
       \/ ~ /\ resp'.op = "create" \/ inflight' # inflight
            /\ \E req \in ApiCreates, ok \in BOOLEAN :
                    C8_FailsValidation(req) /\ CreateStart(req, ok)]_vars

\* C9: every stored campaign has end_time after start_time.
C9_WindowOrdered ==
    \A id \in Stored :
        /\ Comparable(rows[id].start_time, rows[id].end_time)
        /\ Instant(rows[id].end_time) > Instant(rows[id].start_time)

EmptyUpdate == UpdateRequest(None, None, None, None, None)

\* C10: an update with no field supplied answers failure and writes nothing:
\* every row, updated_at included, is as before.
C10_EmptyUpdateIsNoOp ==
    [][\A id \in KnownIds, ok \in BOOLEAN :
        Update(id, EmptyUpdate, ok) =>
            /\ ~resp'.success
            /\ resp'.msg = "no_data"
            /\ rows' = rows]_vars

\* the empty update was answered for a stored campaign at a time a write
\* would have stamped
C10_Witness ==
    /\ resp.op = "update" /\ resp.msg = "no_data"
    /\ resp.id \in Stored
    /\ rows[resp.id].updated_at # Some(now)

\* C11: a successful update changes exactly the supplied fields among
\* description, start_time, end_time, impression_count and status, and stamps
\* updated_at; every field not supplied, and image_path, created_at and
\* current_impressions always, keep their values; the set of stored ids and
\* every other campaign's record are as before.
C11_UpdateFrame ==
    [][\A id \in FrameIds :
        (resp'.op = "update" /\ resp'.id = id /\ resp'.success) =>
            \A req \in FrameUpdates :
                Update(id, req, TRUE) =>
                    /\ DOMAIN rows' = DOMAIN rows
                    /\ \A other \in Stored \ {id} : rows'[other] = rows[other]
                    /\ rows'[id].description =
                          (IF req.description = None THEN rows[id].description
                           ELSE req.description[1])
                    /\ rows'[id].start_time =
                          (IF req.start_time = None THEN rows[id].start_time
                           ELSE req.start_time[1])
                    /\ rows'[id].end_time =
                          (IF req.end_time = None THEN rows[id].end_time ELSE req.end_time[1])
                    /\ rows'[id].impression_count =
                          (IF req.impression_count = None THEN rows[id].impression_count
                           ELSE req.impression_count[1])
                    /\ rows'[id].status =
                          (IF req.status = None THEN rows[id].status ELSE req.status[1])
                    /\ rows'[id].updated_at = Some(now)
                    /\ rows'[id].image_path = rows[id].image_path
                    /\ rows'[id].created_at = rows[id].created_at
                    /\ rows'[id].current_impressions = rows[id].current_impressions
                    /\ resp'.data = Some(rows'[id])]_vars

\* an update that supplied impression_count alone was answered for a
\* campaign paused by an earlier update, with a second campaign stored
C11_Witness ==
    /\ resp.op = "update" /\ resp.success /\ resp.data # None
    /\ resp.data[1].impression_count = 2
    /\ resp.data[1].status = "paused"
    /\ resp.data[1].description = "d1"
    /\ resp.data[1].updated_at = Some(1)
    /\ \E other \in Stored \ {resp.id} : rows[other].updated_at = None

\* C12: every step that changes a stored campaign's record, an update's and
\* an increment_impression's alike, leaves updated_at at the time of the step.
C12_MutationStamped ==
    [][\A id \in Stored \cap DOMAIN rows' :
        rows'[id] # rows[id] => rows'[id].updated_at = Some(now)]_vars

\* C13: a delete on an id with no stored row answers NotFound and changes
\* nothing: rows and blobs are as before and no request is left in flight, so
\* neither a blob removal nor a row delete follows.
C13_DeleteAbsent ==
    [][\A id \in KnownIds, ok \in BOOLEAN :
        (id \notin Stored /\ DeleteRead(id, ok)) =>
            /\ resp'.op = "delete" /\ resp'.id = id
            /\ resp'.code = 404 /\ ~resp'.success
            /\ ok => resp'.msg = "not_found"
            /\ rows' = rows /\ blobs' = blobs
            /\ inflight' = inflight]_vars

\* a delete of an id whose row an earlier delete removed was answered
\* NotFound while another campaign and its blob were stored
C13_Witness ==
    /\ resp.op = "delete" /\ resp.msg = "not_found"
    /\ resp.id \notin Stored /\ resp.id < nextId
    /\ Stored # {} /\ blobs # {}

\* C14: a delete that has read an existing row is in flight before its blob
\* removal or, when the row has no image_path, before its row delete; the
\* blob removal, succeeding or raising, leaves it before the row delete
\* without an answer; and the row delete, when it succeeds, answers success
\* and leaves no row with that id, also when the row was already gone.
C14_DeleteAfterRead ==
    [][/\ \A id \in Stored, ok \in BOOLEAN :
            (ok /\ DeleteRead(id, ok)) =>
                /\ resp' = resp
                /\ \E c \in BagToSet(inflight') :
                      /\ c.op = "delete" /\ c.id = id
                      /\ inflight'[c] > (IF c \in Calls THEN inflight[c] ELSE 0)
                      /\ c.stage = IF rows[id].image_path = None THEN "row" ELSE "blob"
       /\ \A c \in Calls, ok \in BOOLEAN :
            /\ (c.op = "delete" /\ c.stage = "blob" /\ DeleteBlob(c, ok)) =>
                  /\ resp' = resp /\ rows' = rows
                  /\ [c EXCEPT !.stage = "row"] \in BagToSet(inflight')
            /\ (c.op = "delete" /\ c.stage = "row" /\ DeleteRow(c, ok) /\ ok) =>
                  /\ resp'.op = "delete" /\ resp'.id = c.id
                  /\ resp'.success /\ resp'.code = 200
                  /\ c.id \notin DOMAIN rows'
                  /\ \A other \in Stored \ {c.id} :
                        other \in DOMAIN rows' /\ rows'[other] = rows[other]]_vars

\* a delete was answered success, no row is stored, and the blob whose
\* removal raised is still in the bucket
C14_Witness ==
    /\ resp.op = "delete" /\ resp.success
    /\ Stored = {} /\ inflight = EmptyBag
    /\ blobs # {}

\* C15: with one request at a time and store calls that may raise, the step
\* that answers an update, an increment_impression or a delete either answers
\* failure with nothing persisted or removed (the rows are as before, and the
\* blob of the row a delete read is still in the bucket), or answers success
\* with its effect applied (the update's fields written, the counter one
\* above the one read, the deleted row gone).
C15_AllOrNothing ==
    [][/\ \A id \in KnownIds, req \in FaultUpdates, ok \in BOOLEAN :
            Update(id, req, ok) =>
                IF resp'.success
                THEN /\ id \in DOMAIN rows'
                     /\ rows'[id] = Merge(rows[id], UpdateData(req, now)[1])
                     /\ resp'.data = Some(rows'[id])
                ELSE rows' = rows /\ blobs' = blobs
       /\ \A id \in KnownIds \cap AdIds, ok \in BOOLEAN :
            (IncrRead(id, ok) /\ resp' # resp) =>
                ~resp'.success /\ rows' = rows /\ blobs' = blobs
       /\ \A c \in Calls, ok \in BOOLEAN :
            (c.op = "incr" /\ IncrWrite(c, ok)) =>
                IF resp'.success
                THEN /\ c.id \in DOMAIN rows'
                     /\ rows'[c.id].current_impressions = c.current_impressions + 1
                     /\ resp'.data = Some(rows'[c.id])
                ELSE rows' = rows /\ blobs' = blobs
       /\ \A id \in KnownIds, ok \in BOOLEAN :
            (DeleteRead(id, ok) /\ resp' # resp) =>
                ~resp'.success /\ rows' = rows /\ blobs' = blobs
       /\ \A c \in Calls, ok \in BOOLEAN :
            (c.op = "delete" /\ c.stage = "row" /\ DeleteRow(c, ok)) =>
                IF resp'.success
                THEN c.id \notin DOMAIN rows'
                ELSE /\ rows' = rows
                     /\ c.image_path # None => c.image_path[1] \in blobs']_vars

\* C16: a create whose upload raises answers failure and leaves rows and
\* blobs as they were, with no insert to follow; a create whose insert raises
\* answers failure, inserts no row, and leaves the blob it uploaded in the
\* bucket.
C16_CreateFailures ==
    [][/\ \/ /\ ~resp'.success /\ resp'.code = 500
                /\ rows' = rows /\ blobs' = blobs /\ inflight' = inflight
             \/ ~ /\ resp'.op = "create"
                  /\ \E req \in ApiCreates : CreateChecks(req) = 0 /\ CreateStart(req, FALSE)
       /\ \A c \in Calls :
            (c.op = "create" /\ CreateInsert(c, FALSE)) =>
                /\ ~resp'.success /\ resp'.code = 500
                /\ rows' = rows /\ nextId' = nextId
                /\ blobs' = blobs
                /\ c.advertisement_data[1].image_path[1] \in blobs']_vars

\* a create was answered failure after its upload: no row is stored and the
\* blob is in the bucket
C16_Witness ==
    /\ resp.op = "create" /\ resp.code = 500
    /\ Stored = {} /\ inflight = EmptyBag
    /\ nextKey = 2 /\ blobs = {1}

\* the rows a status filter keeps: all of them without a filter
C17_Kept(status) ==
    {id \in Stored : status = None \/ status[1] = "" \/ rows[id].status = status[1]}

\* data holds the positions offset .. offset+limit-1 of the kept rows in an
\* order of descending created_at
C17_IsWindow(data, status, limit, offset) ==
    LET kept == C17_Kept(status)
        size == Cardinality(kept)
    IN /\ Len(data) <= limit
       /\ Len(data) = (IF size <= offset THEN 0
                       ELSE IF size - offset < limit THEN size - offset ELSE limit)
       /\ \A k \in 1..Len(data) :
            /\ data[k].id \in kept
            /\ data[k].row = rows[data[k].id]
            /\ Cardinality({id \in kept : rows[id].created_at > data[k].row.created_at})
                    <= offset + k - 1
            /\ Cardinality({id \in kept : rows[id].created_at >= data[k].row.created_at})
                    >= offset + k
       /\ \A j, k \in 1..Len(data) :
            j < k => /\ data[j].id # data[k].id
                     /\ data[j].row.created_at >= data[k].row.created_at

\* C17: in every store (as it is before the first answer; no list changes
\* it), for every status filter, limit and offset, the data
\* of the list is the window offset .. offset+limit-1 of the rows the filter
\* keeps (all rows without a filter), ordered by created_at descending, so it
\* holds at most limit rows; and the next page of the same order, at offset +
\* limit, shares no row with it and holds no row created later than any of
\* its rows.  The data of a list answered with success is such a window.
C17_ListWindow ==
    /\ resp = NoResponse =>
        \A status \in StatusFilters, limit \in Limits, offset \in Offsets :
            /\ \A data \in GetAllData(status, limit, offset) :
                    C17_IsWindow(data, status, limit, offset)
            /\ \A ids \in OrderByCreatedAtDesc(Matching(status), now) :
                    LET data == Range(Records(ids), offset, limit)
                        next == Range(Records(ids), offset + limit, limit)
                    IN \A j \in 1..Len(data), k \in 1..Len(next) :
                            /\ data[j].id # next[k].id
                            /\ data[j].row.created_at >= next[k].row.created_at
    /\ (resp.op = "list" /\ resp.success) =>
            \E status \in StatusFilters, limit \in Limits, offset \in Offsets :
                C17_IsWindow(resp.data, status, limit, offset)

\* a second page was answered: one campaign, the oldest of three, two of
\* which were created at the same time
C17_Witness ==
    /\ resp.op = "list" /\ resp.success
    /\ Cardinality(Stored) = 3
    /\ Len(resp.data) = 1
    /\ \A id \in Stored : rows[id].created_at >= resp.data[1].row.created_at
    /\ \E i, j \in Stored : i # j /\ rows[i].created_at = rows[j].created_at
    /\ \E i \in Stored : rows[i].created_at > resp.data[1].row.created_at

\* the records of a list, as a set
C18_Set(data) == {data[k] : k \in 1..Len(data)}

\* the records of the stored campaigns whose status is "active"
C18_Active == {Record(id) : id \in {i \in Stored : rows[i].status = "active"}}

\* C18 as stated: in every store the list with status "active" and the
\* default limit and offset holds only active records, and the active list
\* holds the same set of records, every active one whatever its window and
\* counter.
C18_ActiveListsAgree ==
    \A page \in GetAllData(Some("active"), DefaultLimit, 0), active \in GetActiveData :
        /\ \A k \in 1..Len(page) : page[k].row.status = "active"
        /\ C18_Set(active) = C18_Active
        /\ C18_Set(active) = C18_Set(page)

\* C18, amended: in every store (as it is before the first answer) the list
\* with status "active" holds only active records; the
\* active list holds every active record, whatever its window and counter;
\* the two hold the same set when at most DefaultLimit campaigns are active,
\* and otherwise the list holds DefaultLimit of the records of the active
\* list.  The data of an active list answered with success is that set.
C18_ActiveListsAgreeWithinLimit ==
    /\ resp = NoResponse =>
        \A page \in GetAllData(Some("active"), DefaultLimit, 0), active \in GetActiveData :
        /\ \A k \in 1..Len(page) : page[k].row.status = "active"
        /\ C18_Set(active) = C18_Active
        /\ Len(active) = Cardinality(C18_Active)
        /\ IF Cardinality(C18_Active) <= DefaultLimit
           THEN C18_Set(active) = C18_Set(page)
           ELSE /\ C18_Set(page) \subseteq C18_Set(active)
                /\ Cardinality(C18_Set(page)) = DefaultLimit
    /\ (resp.op = "list_active" /\ resp.success) => C18_Set(resp.data) = C18_Active

\* the active list answered with a campaign whose window has not begun and
\* whose counter is at its quota
C18_Witness ==
    /\ resp.op = "list_active" /\ resp.success
    /\ \E k \in 1..Len(resp.data) :
        /\ resp.data[k].row.current_impressions >= resp.data[k].row.impression_count
        /\ Instant(resp.data[k].row.start_time) > now
    /\ \E id \in Stored : rows[id].status # "active"

\* the result the backend's answer alone decides
C19_ByBackend(backend) ==
    IF backend.kind = "timeout" THEN "timeout"
    ELSE IF backend.kind # "response" THEN "error"
    ELSE IF backend.status_code = 200 THEN "ok"
    ELSE IF backend.status_code = 503 THEN "loading"
    ELSE "failed"

\* C19: a generation request for a supported model whose prompt holds CJK
\* characters, made with no translation credentials set or with a translation
\* that raises, posts the original prompt to the generation backend, and its
\* result is the one the backend's answer decides, with the original prompt
\* as the prompt used.
C19_UntranslatedPromptIsUsed ==
    (/\ resp.op = "generate"
     /\ ContainsChinese(resp.given.prompt)
     /\ resp.given.model \in DOMAIN MODELS
     /\ \/ "GEMINI_API_KEY" \notin resp.given.environ
        \/ resp.given.translate = "raises") =>
        /\ \E k \in 1..Len(resp.calls) :
              resp.calls[k].to = "generate" /\ resp.calls[k].inputs = resp.given.prompt
        /\ resp.msg = C19_ByBackend(resp.given.backend)
        /\ resp.success =>
              /\ resp.data[1].prompt = resp.given.prompt
              /\ resp.data[1].original_prompt = resp.given.prompt

\* C20: the result of a generation request is unsupported-model for a model
\* outside MODELS; otherwise model-loading for the backend's 503, timeout for
\* a timeout, generation-failed with the backend's status and text for any
\* other answer outside 2xx, and for 200 success with the image bytes, the
\* prompt used and the original prompt.
C20_OutcomeMapping ==
    resp.op = "generate" =>
        IF resp.given.model \notin DOMAIN MODELS
        THEN ~resp.success /\ resp.msg = "unsupported_model"
        ELSE /\ resp.given.backend.kind = "timeout" =>
                    ~resp.success /\ resp.msg = "timeout"
             /\ (resp.given.backend.kind = "response"
                    /\ resp.given.backend.status_code = 503) =>
                    ~resp.success /\ resp.msg = "loading"
             /\ (resp.given.backend.kind = "response"
                    /\ resp.given.backend.status_code \notin 200..299
                    /\ resp.given.backend.status_code # 503) =>
                    /\ ~resp.success /\ resp.msg = "failed"
                    /\ resp.detail = <<resp.given.backend.status_code, resp.given.backend.body>>
             /\ (resp.given.backend.kind = "response"
                    /\ resp.given.backend.status_code = 200) =>
                    /\ resp.success /\ resp.data # None
                    /\ resp.data[1].image_bytes = resp.given.backend.body
                    /\ resp.data[1].original_prompt = resp.given.prompt
                    /\ resp.data[1].prompt \in {resp.given.prompt, English(resp.given.prompt)}

\* C21: a generation request for a model outside MODELS is rejected before
\* any side effect: it fails, having made no call to the translation
\* capability and none to the generation backend, also when its prompt or
\* negative_prompt holds CJK characters.
C21_UnsupportedModelRejectedFirst ==
    (resp.op = "generate" /\ resp.given.model \notin DOMAIN MODELS) =>
        /\ ~resp.success
        /\ resp.data = None
        /\ resp.calls = <<>>

\* a request for an unsupported model with a CJK prompt and a CJK
\* negative_prompt, both credentials set and the translation available, has
\* been answered
C21_Witness ==
    /\ resp.op = "generate"
    /\ resp.given.model \notin DOMAIN MODELS
    /\ ContainsChinese(resp.given.prompt)
    /\ resp.given.negative_prompt # None
    /\ ContainsChinese(resp.given.negative_prompt[1])
    /\ resp.given.environ = {"HUGGINGFACE_TOKEN", "GEMINI_API_KEY"}
    /\ resp.given.gemini_available /\ resp.given.translate = "ok"
    /\ ~resp.success /\ resp.calls = <<>>

\* C22: in the executions with no update, every stored campaign whose
\* current_impressions is at or above its impression_count has status
\* "completed", however the increment_impression requests on it interleave.
C22_ExhaustedIsCompleted ==
    \A id \in Stored :
        rows[id].current_impressions >= rows[id].impression_count
            => rows[id].status = "completed"

\* increments that read the same counter have all written, one overwriting
\* the other's value, and the campaign is exhausted and completed
C22_Witness ==
    \E id \in Stored :
        /\ inflight = EmptyBag
        /\ incrOk[id] > rows[id].current_impressions
        /\ rows[id].current_impressions >= rows[id].impression_count
        /\ rows[id].status = "completed"

\* C23: in the executions with no update, every stored campaign with status
\* "completed" has current_impressions at or above its impression_count, also
\* when a write of increment_impression comes from a stale read.
C23_CompletedIsExhausted ==
    \A id \in Stored :
        rows[id].status = "completed"
            => rows[id].current_impressions >= rows[id].impression_count

\* the ids whose row was removed: the store hands out 1, 2, ... and never an
\* id twice
C24_Deleted == (1..(nextId - 1)) \ Stored

\* C24: once the row of an id has been removed, no step stores a row under
\* that id again, whether it is an update, the write of an
\* increment_impression that read the row before the delete, or any other;
\* an update of that id and a get of that id answer not found.
C24_NeverResurrected ==
    [][\A id \in C24_Deleted :
        /\ id \notin DOMAIN rows'
        /\ (\E req \in GoneUpdates : Update(id, req, TRUE)) =>
                resp' = Response("update", id, 404, "not_found", None)
        /\ GetAdvertisement(id, TRUE) =>
                resp' = Response("get", id, 404, "not_found", None)]_vars

\* an increment_impression that read the campaign before its delete has
\* written after it, and the id is still not stored
C24_Witness ==
    /\ resp.op = "incr" /\ resp.success /\ resp.data = None
    /\ resp.id \in C24_Deleted
    /\ inflight = EmptyBag

\* C25: whatever the status of a stored campaign, "paused" and "completed"
\* included, an increment_impression on it answers success and stores
\* current_impressions one higher; the status becomes "completed" when the
\* new counter is at or above impression_count, from "paused" as from
\* "active", and stays as it was otherwise; no other field changes.
C25_StatusNotConsulted ==
    [][\A c \in Calls :
        (c.op = "incr" /\ c.id \in Stored /\ IncrWrite(c, TRUE)) =>
            /\ resp' = Response("incr", c.id, 200, "ok", Some(rows'[c.id]))
            /\ rows'[c.id].current_impressions = rows[c.id].current_impressions + 1
            /\ rows'[c.id].status =
                    IF rows[c.id].current_impressions + 1 >= rows[c.id].impression_count
                    THEN "completed" ELSE rows[c.id].status
            /\ rows'[c.id] = [rows[c.id] EXCEPT
                                 !.current_impressions = rows'[c.id].current_impressions,
                                 !.status = rows'[c.id].status]]_vars

\* the campaign was paused before its counter reached the quota, and the
\* increment that reached it has just completed it: the only updates pause,
\* so an update after that increment would have left it paused
C25_Witness ==
    /\ resp.op = "incr" /\ resp.success /\ resp.data # None
    /\ resp.data[1].updated_at # None
    /\ resp.data[1].status = "completed"
    /\ resp.data[1].current_impressions = resp.data[1].impression_count
    /\ incrOk[resp.id] = resp.data[1].current_impressions

====
